---- MODULE Spec2Model ----
(***************************************************************************)
(* A model of otk's view-extension merge step (commands/extend.py), its    *)
(* XML append helper (commands/add_xml.py), the RNG schema cache and the   *)
(* lint pipeline (commands/lint.py): the view classifier, the convention   *)
(* rules, the attrs suggestion, schema validation, the lint of one file    *)
(* and the lint commands.                                                  *)
(*                                                                         *)
(* A file of the module's views directory is a sequence of top-level       *)
(* tokens: the wrapper's opening tag <odoo>, its closing tag </odoo>,      *)
(* elements (records, menu items) and malformed text.  Text operations     *)
(* (str.replace, +=) act on the token sequence; lxml's parser accepts a    *)
(* token sequence exactly when it is one well-formed element.              *)
(***************************************************************************)
EXTENDS Integers, Sequences, FiniteSets, TLC

VARIABLES
    viewsDir,   \* module_path / 'views' is a directory
    files,      \* file name -> content, for the *.xml files of views/
    hist,       \* the calls made so far: inputs, files before and after, outcome
    schemaCache,\* _schema_cache: schema type -> schema text
    thread,     \* each caller of download_rng_schema: where it is, for which key
    fetchLog,   \* the calls of download_rng_schema that have returned
    started,    \* the number of calls of download_rng_schema begun
    lintFiles,  \* files_to_lint: the paths, in the order of the loop
    skipRng,    \* --skip-rng
    command,    \* "views" (view validation on) or "xml" (off)
    lintIdx,    \* the position of the for loop in files_to_lint
    results,    \* the findings of each file linted so far, and its schema fetches
    summary,    \* total_errors, files_with_errors and the exit status
    ruleDoc,    \* root: the parsed document handed to the classifier and the rules
    ruleType,   \* what get_view_type_from_xml returned for it, once called
    ruleRuns,   \* the calls of validate_odoo_view_conventions made on it
    ruleLint,   \* what lint_xml_file returned for it, once called
    rngRuns,    \* the calls of validate_view_with_rng made on it
    suggested   \* the calls of get_attrs_replacement_suggestion made so far

fsVars == <<viewsDir, files, hist>>

fetchVars == <<schemaCache, thread, fetchLog, started>>

lintVars == <<lintFiles, skipRng, command, lintIdx, results, summary>>

ruleVars == <<ruleDoc, ruleType, ruleRuns, ruleLint, rngRuns, suggested>>

vars == <<fsVars, fetchVars, lintVars, ruleVars>>

---------------------------------------------------------------------------
(* Bounds *)

MaxOps == 2          \* calls of extend / add action / add menu in one behaviour
MaxLintFiles == 2    \* files in one lint run

---------------------------------------------------------------------------
(* Tokens and elements *)

NoRef == <<>>        \* no inherit_id field on the record

Tok(k) ==
    [kind |-> k, model |-> "", id |-> "", inherit |-> NoRef, fmodel |-> "",
     hasArch |-> FALSE, arch |-> <<>>]

OdooOpen  == Tok("open")       \* "<odoo>"
OdooClose == Tok("close")      \* "</odoo>", the marker of _append_xml_to_file
Junk      == Tok("junk")       \* text that is not well-formed XML

\* The content of a file that cannot be opened for reading (its permissions
\* deny it): etree.parse raises OSError for it.
Unreadable == <<Tok("unreadable")>>

\* <record model="ir.ui.view" id=...> with an optional inherit_id field and an
\* optional arch field holding the xpath fragments in `arch`.
ViewRecord(id, ref, fmodel, hasArch, arch) ==
    [kind |-> "record", model |-> "ir.ui.view", id |-> id, inherit |-> ref,
     fmodel |-> fmodel, hasArch |-> hasArch, arch |-> arch]

\* The rendering of action/window_action.xml.j2: a record of another model.
ActionXml ==
    [kind |-> "record", model |-> "ir.actions.act_window", id |-> "action",
     inherit |-> NoRef, fmodel |-> "", hasArch |-> FALSE, arch |-> <<>>]

\* The rendering of menu/menuitem.xml.j2.
MenuXml ==
    [kind |-> "menuitem", model |-> "", id |-> "menu", inherit |-> NoRef,
     fmodel |-> "", hasArch |-> FALSE, arch |-> <<>>]

Wrapped(items) == <<OdooOpen>> \o items \o <<OdooClose>>

---------------------------------------------------------------------------
(* The xpath fragment: view/xpath_field.xml.j2 rendered with the request.  *)
(* The template writes the values between double quotes without escaping   *)
(* (the Jinja environment of templating.py has autoescape off), so an      *)
(* XPath expression that holds a double quote yields malformed XML.        *)

ExprVat    == "//field[@name='vat']"
ExprQuoted == "//page[@string=\"Info\"]"
\* The --field values: a name, and the empty text that the prompt of line 82
\* returns when the user enters nothing.
FieldNames == {"x_note", ""}

\* The choices of the position prompt of line 88.
PositionChoices == {"after", "before", "inside", "replace"}

\* The --xpath and --position values of the calls: two that render to
\* well-formed fragments, one whose expression holds a double quote, and one
\* whose position is none of the choices.
XPathInputs ==
    {<<ExprVat, "after">>, <<ExprVat, "inside">>, <<ExprQuoted, "after">>,
     <<ExprVat, "sideways">>}

\* The requests made: every xpath input with the field name, one of them with
\* the empty field name.
RequestInputs ==
    {<<x, "x_note">> : x \in XPathInputs} \cup {<<<<ExprVat, "after">>, "">>}

HasDoubleQuote(s) == s = ExprQuoted

\* render_template("view/xpath_field.xml.j2", context, None)
RenderXPath(xpath_expr, position, field) ==
    [expr |-> xpath_expr, position |-> position, field |-> field]

\* etree.fromstring(new_xpath_str) succeeds
FragmentParses(frag) == ~HasDoubleQuote(frag.expr)

---------------------------------------------------------------------------
(* lxml's parse of a file *)

IsElement(t) == t.kind \in {"record", "menuitem"}

ElementParses(t) ==
    /\ IsElement(t)
    /\ \A i \in 1..Len(t.arch) : FragmentParses(t.arch[i])

\* etree.parse(str(xml_file), parser) does not raise XMLSyntaxError: the text is
\* one element, either the wrapper around well-formed elements or a lone element.
Parses(content) ==
    \/ /\ Len(content) >= 2
       /\ content[1] = OdooOpen
       /\ content[Len(content)] = OdooClose
       /\ \A i \in 2..(Len(content) - 1) : ElementParses(content[i])
    \/ /\ Len(content) = 1
       /\ ElementParses(content[1])

\* etree.parse(str(xml_file), parser) can open the file.
Readable(content) == content # Unreadable

\* root.findall(".//record[@model='ir.ui.view']"): the positions, in document
\* order, of the view records below the root (the root itself is not a match).
ViewRecordPositions(content) ==
    IF Len(content) >= 2
    THEN {i \in 2..(Len(content) - 1) :
            content[i].kind = "record" /\ content[i].model = "ir.ui.view"}
    ELSE {}

SetMin(S) == CHOOSE x \in S : \A y \in S : x <= y

\* The for/else of lines 26-33: the first record whose inherit_id field has
\* ref == view_id; 0 stands for None.
FirstMatch(content, view_id) ==
    LET hits == {i \in ViewRecordPositions(content) : content[i].inherit = view_id}
    IN  IF hits = {} THEN 0 ELSE SetMin(hits)

---------------------------------------------------------------------------
(* _find_and_update_view_file *)

NoFile == ""

\* The append with a look for a fragment that is already there: what C27
\* rules out.
AppendUnlessPresent(arch, new_xpath_element) ==
    IF \E k \in 1..Len(arch) : arch[k] = new_xpath_element
    THEN arch ELSE Append(arch, new_xpath_element)

\* arch_field.append(new_xpath_element), line 40: the element becomes the last
\* child, whatever the children there are.
ArchAppend(arch, new_xpath_element) == Append(arch, new_xpath_element)

\* Lines 21-45 over the files the glob yields, in the order it yields them.
\* A file that does not parse raises XMLSyntaxError at line 23; a fragment that
\* does not parse raises it at line 39; both land in the except clause of line
\* 43, which goes on with the next file.  A match without an arch field falls
\* out of the if of line 38 and the loop goes on as well.  A file that cannot
\* be read raises OSError at line 23, which no except clause catches: it leaves
\* the function and the command.
RECURSIVE FindAndUpdate(_, _, _, _)
FindAndUpdate(fs, order, view_id, new_xpath_str) ==
    IF order = <<>>
    THEN [updated |-> FALSE, raised |-> FALSE, files |-> fs, file |-> NoFile]
    ELSE LET xml_file == Head(order)
             content  == fs[xml_file]
             match    == IF Parses(content) THEN FirstMatch(content, view_id) ELSE 0
         IN  IF ~Readable(content)
             THEN [updated |-> FALSE, raised |-> TRUE, files |-> fs, file |-> xml_file]
             ELSE IF ~Parses(content)
             THEN FindAndUpdate(fs, Tail(order), view_id, new_xpath_str)
             ELSE IF match = 0
             THEN FindAndUpdate(fs, Tail(order), view_id, new_xpath_str)
             ELSE IF ~content[match].hasArch
             THEN FindAndUpdate(fs, Tail(order), view_id, new_xpath_str)
             ELSE IF ~FragmentParses(new_xpath_str)
             THEN FindAndUpdate(fs, Tail(order), view_id, new_xpath_str)
             ELSE [updated |-> TRUE, raised |-> FALSE,
                   files |-> [fs EXCEPT ![xml_file] =
                                [content EXCEPT ![match].arch =
                                                  ArchAppend(@, new_xpath_str)]],
                   file |-> xml_file]

---------------------------------------------------------------------------
(* view: the extend command *)

\* A view id is its dot-separated parts: base.view_form is <<"base", "view_form">>.
TargetA == <<"base", "view_form">>
TargetB == <<"sale", "view_form">>

\* The --view-id and --model values of the calls: a view and the model it is for.
ViewInputs == {<<TargetA, "res.partner">>, <<TargetB, "sale.order">>}
Module == "my_module"

\* view_id.split('.')[-1]
ViewNamePart(view_id) == view_id[Len(view_id)]

\* f"{view_name_part}_inherited_views.xml"
NewFileName(view_id) == ViewNamePart(view_id) \o "_inherited_views.xml"

\* render_template('view/inherited_view.xml.j2', new_view_context, ...): one
\* wrapper around one view record that inherits from view_id, with the model
\* and with the snippet as the body of its arch.
RenderInheritedView(view_id, module, model_name, xpath_snippet) ==
    Wrapped(<<ViewRecord(<<module, ViewNamePart(view_id), "_inherit_", module>>,
                         view_id, model_name, TRUE, <<xpath_snippet>>)>>)

\* render_template with an output path: mkdir(parents=True) and open(..., 'w').
WriteFile(fs, name, content) ==
    [n \in (DOMAIN fs) \cup {name} |-> IF n = name THEN content ELSE fs[n]]

\* The orders in which views_path.glob('*.xml') can yield the files.
GlobOrders(fs) ==
    {o \in [1..Cardinality(DOMAIN fs) -> DOMAIN fs] :
        \A i, j \in DOMAIN o : i # j => o[i] # o[j]}

Call(op, view_id, model_name, frag, xml, order, after, result, file) ==
    [op |-> op, view_id |-> view_id, model_name |-> model_name, frag |-> frag,
     xml |-> xml, order |-> order, before |-> files, after |-> after,
     result |-> result, file |-> file]

NoFrag == RenderXPath("", "", "")

\* Lines 90-93: the module is in no addons path.
ExtendNoModule ==
    /\ Len(hist) < MaxOps
    /\ hist' = Append(hist, Call("extend", NoRef, "", NoFrag, Junk, <<>>, files,
                                 "exit1", NoFile))
    /\ UNCHANGED <<viewsDir, files, fetchVars, lintVars, ruleVars>>

\* Lines 95-120.
Extend ==
    /\ Len(hist) < MaxOps
    /\ \E v \in ViewInputs, request \in RequestInputs,
          order \in (IF viewsDir THEN GlobOrders(files) ELSE {<<>>}) :
         LET view_id    == v[1]
             model_name == v[2]
             x          == request[1]
             field      == request[2]
             xpath_str  == RenderXPath(x[1], x[2], field)
             found     == FindAndUpdate(files, order, view_id, xpath_str)
             created   == WriteFile(files, NewFileName(view_id),
                              RenderInheritedView(view_id, Module, model_name, xpath_str))
         IN  IF found.raised
             THEN /\ files' = files
                  /\ viewsDir' = viewsDir
                  /\ hist' = Append(hist, Call("extend", view_id, model_name, xpath_str,
                                               Junk, order, files, "raised", found.file))
             ELSE IF found.updated
             THEN /\ files' = found.files
                  /\ viewsDir' = viewsDir
                  /\ hist' = Append(hist, Call("extend", view_id, model_name, xpath_str,
                                               Junk, order, found.files, "updated",
                                               found.file))
             ELSE /\ files' = created
                  /\ viewsDir' = TRUE
                  /\ hist' = Append(hist, Call("extend", view_id, model_name, xpath_str,
                                               Junk, order, created, "created",
                                               NewFileName(view_id)))
    /\ UNCHANGED <<fetchVars, lintVars, ruleVars>>

---------------------------------------------------------------------------
(* _append_xml_to_file, as the action and menu commands call it *)

ActionsFile == "actions_and_menus.xml"

\* _ensure_xml_data_wrapper: "<odoo>\n\n</odoo>\n" when the file is missing or empty.
EnsureXmlDataWrapper(fs, file_path) ==
    IF file_path \notin DOMAIN fs \/ fs[file_path] = <<>>
    THEN WriteFile(fs, file_path, <<OdooOpen, OdooClose>>)
    ELSE fs

\* marker in content
HasMarker(content) == \E i \in 1..Len(content) : content[i] = OdooClose

\* content.replace(marker, f"{xml_content}\n{marker}"): every occurrence.
RECURSIVE ReplaceMarker(_, _)
ReplaceMarker(content, xml_content) ==
    IF content = <<>> THEN <<>>
    ELSE (IF Head(content) = OdooClose
          THEN <<xml_content, OdooClose>>
          ELSE <<Head(content)>>) \o ReplaceMarker(Tail(content), xml_content)

AppendXmlToFile(fs, file_path, xml_content) ==
    LET ensured == EnsureXmlDataWrapper(fs, file_path)
        content == ensured[file_path]
    IN  WriteFile(ensured, file_path,
                  IF HasMarker(content)
                  THEN ReplaceMarker(content, xml_content)
                  ELSE content \o <<xml_content>>)

\* action / menu, lines 42-44 and 79-81: the module directory is missing.
AddXmlNoModule ==
    /\ Len(hist) < MaxOps
    /\ hist' = Append(hist, Call("append", NoRef, "", NoFrag, Junk, <<>>, files,
                                 "exit1", NoFile))
    /\ UNCHANGED <<viewsDir, files, fetchVars, lintVars, ruleVars>>

\* action / menu with the module present.  Without a views directory
\* write_text raises FileNotFoundError and nothing is written.
AddXml ==
    /\ Len(hist) < MaxOps
    /\ \E xml_content \in {ActionXml, MenuXml} :
         IF viewsDir
         THEN LET after == AppendXmlToFile(files, ActionsFile, xml_content)
              IN  /\ files' = after
                  /\ hist' = Append(hist, Call("append", NoRef, "", NoFrag, xml_content,
                                               <<>>, after, "appended", ActionsFile))
         ELSE /\ files' = files
              /\ hist' = Append(hist, Call("append", NoRef, "", NoFrag, xml_content,
                                           <<>>, files, "raised", NoFile))
    /\ UNCHANGED <<viewsDir, fetchVars, lintVars, ruleVars>>

---------------------------------------------------------------------------
(* The views directory before the first call *)

PartnerFile == "partner_views.xml"
DerivedFile == "view_form_inherited_views.xml"

OldFrag == RenderXPath(ExprVat, "before", "x_old")

InhA     == ViewRecord(<<"v1">>, TargetA, "res.partner", TRUE, <<OldFrag>>)
InhA2    == ViewRecord(<<"v2">>, TargetA, "res.partner", TRUE, <<>>)
InhANoArch == ViewRecord(<<"v3">>, TargetA, "res.partner", FALSE, <<>>)
PlainView == ViewRecord(<<"v4">>, NoRef, "res.partner", TRUE, <<>>)
InhB     == ViewRecord(<<Module, "view_form", "_inherit_", Module>>, TargetB,
                       "sale.order", TRUE, <<OldFrag>>)

\* None stands for a file that does not exist.
PartnerContents ==
    { <<"none">>, <<"some", <<Junk>>>>, <<"some", Unreadable>>,
      <<"some", Wrapped(<<InhA>>)>>,
      <<"some", Wrapped(<<InhA, InhA2>>)>>,
      <<"some", Wrapped(<<InhANoArch, InhA>>)>>,
      <<"some", Wrapped(<<PlainView>>)>> }

ActionsContents ==
    { <<"none">>, <<"some", <<>>>>,
      <<"some", Wrapped(<<>>)>>,
      <<"some", Wrapped(<<ActionXml>>)>>,
      <<"some", <<ActionXml>>>>,
      <<"some", Wrapped(<<InhA2>>)>> }

DerivedContents ==
    { <<"none">>, <<"some", Wrapped(<<InhB>>)>> }

MakeFiles(p, a, d) ==
    LET names == (IF p[1] = "some" THEN {PartnerFile} ELSE {})
                 \cup (IF a[1] = "some" THEN {ActionsFile} ELSE {})
                 \cup (IF d[1] = "some" THEN {DerivedFile} ELSE {})
    IN  [n \in names |-> IF n = PartnerFile THEN p[2]
                         ELSE IF n = ActionsFile THEN a[2] ELSE d[2]]

FsInit ==
    /\ viewsDir \in BOOLEAN
    /\ files \in IF viewsDir
                 THEN {MakeFiles(p, a, d) : p \in PartnerContents,
                                            a \in ActionsContents,
                                            d \in DerivedContents}
                 ELSE {MakeFiles(<<"none">>, <<"none">>, <<"none">>)}
    /\ hist = <<>>

\* A views directory whose partner file holds a record that inherits from
\* base.view_form, with or without a second file that does: where an extend
\* call for that view can be repeated.
RepeatInit ==
    /\ viewsDir = TRUE
    /\ files \in {MakeFiles(p, a, <<"none">>) :
                    p \in {c \in PartnerContents :
                             c[1] = "some" /\ FirstMatch(c[2], TargetA) # 0},
                    a \in {<<"none">>, <<"some", Wrapped(<<InhA2>>)>>}}
    /\ hist = <<>>

---------------------------------------------------------------------------
(* The schema cache: download_rng_schema *)

\* The keys of RNG_SCHEMA_URLS.
RNG_SCHEMA_KEYS == {"common", "list", "search", "graph", "pivot", "calendar", "activity"}

None == "None"

\* What requests.get and raise_for_status can come to: an exception (transport
\* error, timeout, error status) or the text of the response.  A response can be
\* the schema, another text, or empty.
NetFailures == {"transport_error", "timeout", "error_status"}
NetTexts    == {"rng", "html", ""}
NetOutcomes == NetFailures \cup NetTexts

\* The try block without an except clause for the error status: what C9 rules out.
OnResponseUncaughtStatus(cache, schema_type, net) ==
    IF net \in NetFailures
    THEN [ret |-> None, raised |-> net = "error_status", cache |-> cache]
    ELSE [ret |-> net, raised |-> FALSE,
          cache |-> [k \in (DOMAIN cache) \cup {schema_type} |->
                        IF k = schema_type THEN net ELSE cache[k]]]

\* Lines 37-45: the try block once the request has come back.
OnResponse(cache, schema_type, net) ==
    IF net \in NetFailures
    THEN [ret |-> None, raised |-> FALSE, cache |-> cache]
    ELSE [ret |-> net, raised |-> FALSE,
          cache |-> [k \in (DOMAIN cache) \cup {schema_type} |->
                        IF k = schema_type THEN net ELSE cache[k]]]

\* Lines 31-35 without the cache lookup of lines 31-32: what C8 rules out.
BeforeRequestIgnoresCache(cache, schema_type) ==
    IF schema_type \notin RNG_SCHEMA_KEYS
    THEN [step |-> "return", ret |-> None]
    ELSE [step |-> "get", ret |-> None]

\* Lines 31-35: the answer without a request, or "get" when line 38 is reached.
BeforeRequest(cache, schema_type) ==
    IF schema_type \in DOMAIN cache
    THEN [step |-> "return", ret |-> cache[schema_type]]
    ELSE IF schema_type \notin RNG_SCHEMA_KEYS
    THEN [step |-> "return", ret |-> None]
    ELSE [step |-> "get", ret |-> None]

\* One whole call made by a single thread, as the lint pipeline makes it.
DownloadRngSchema(cache, schema_type, net) ==
    LET b == BeforeRequest(cache, schema_type)
        r == OnResponse(cache, schema_type, net)
    IN  IF b.step = "return"
        THEN [ret |-> b.ret, raised |-> FALSE, cache |-> cache, requested |-> FALSE]
        ELSE [ret |-> r.ret, raised |-> r.raised, cache |-> r.cache, requested |-> TRUE]

(* Callers of download_rng_schema that run at the same time.  A call is two
   steps: lines 31-38 up to the request, and lines 39-45 from the response. *)

NCallers == 2        \* threads calling download_rng_schema
MaxCalls == 3        \* calls begun in one behaviour

Callers == 1..NCallers

\* The keys the callers ask for: two known ones and one outside the known set.
CallKeys == {"common", "list", "form"}

IdleThread == [pc |-> "idle", key |-> None]

FetchCall(c, schema_type) ==
    /\ thread[c].pc = "idle"
    /\ started < MaxCalls
    /\ started' = started + 1
    /\ LET b == BeforeRequest(schemaCache, schema_type)
       IN  IF b.step = "return"
           THEN /\ fetchLog' = Append(fetchLog,
                                      [caller |-> c, key |-> schema_type, net |-> None,
                                       requested |-> FALSE, ret |-> b.ret,
                                       raised |-> FALSE, before |-> schemaCache,
                                       after |-> schemaCache])
                /\ UNCHANGED thread
           ELSE /\ thread' = [thread EXCEPT ![c] = [pc |-> "get", key |-> schema_type]]
                /\ UNCHANGED fetchLog
    /\ UNCHANGED <<schemaCache, fsVars, lintVars, ruleVars>>

FetchRespond(c, net) ==
    /\ thread[c].pc = "get"
    /\ LET r == OnResponse(schemaCache, thread[c].key, net)
       IN  /\ schemaCache' = r.cache
           /\ fetchLog' = Append(fetchLog,
                                 [caller |-> c, key |-> thread[c].key, net |-> net,
                                  requested |-> TRUE, ret |-> r.ret, raised |-> r.raised,
                                  before |-> schemaCache, after |-> r.cache])
    /\ thread' = [thread EXCEPT ![c] = IdleThread]
    /\ UNCHANGED <<started, fsVars, lintVars, ruleVars>>

EmptyCache == [k \in {} |-> ""]

FetchInit ==
    /\ schemaCache = EmptyCache
    /\ thread = [c \in Callers |-> IdleThread]
    /\ fetchLog = <<>>
    /\ started = 0

---------------------------------------------------------------------------
(* Parsed documents of the linter *)
(* A document is its elements in document order, each with its depth: the  *)
(* descendants of an element are the elements after it up to the next one  *)
(* that is not deeper.  An attribute that is not set is Absent.            *)

Absent == "<absent>"

El(tag, depth) ==
    [tag |-> tag, depth |-> depth, id |-> Absent, model |-> Absent, name |-> Absent,
     string |-> Absent, attrs |-> Absent, states |-> Absent, text |-> "", valid |-> TRUE]

\* Python's truth of element.get(...): set and not empty.
Truthy(v) == v # Absent /\ v # ""

\* The last element of the subtree of element i, scanning on from element j.
RECURSIVE SubtreeEnd(_, _, _)
SubtreeEnd(doc, i, j) ==
    IF j < Len(doc) /\ doc[j + 1].depth > doc[i].depth
    THEN SubtreeEnd(doc, i, j + 1) ELSE j

Descendants(doc, i) == (i + 1)..SubtreeEnd(doc, i, i)

RECURSIVE SortedSeq(_)
SortedSeq(S) ==
    IF S = {} THEN <<>> ELSE <<SetMin(S)>> \o SortedSeq(S \ {SetMin(S)})

RECURSIVE ConcatMap(_, _)
ConcatMap(F(_), s) ==
    IF s = <<>> THEN <<>> ELSE F(Head(s)) \o ConcatMap(F, Tail(s))

\* root.xpath("//record[@model='ir.ui.view']"), in document order
XPathViewRecords(doc) ==
    SortedSeq({i \in 1..Len(doc) : doc[i].tag = "record" /\ doc[i].model = "ir.ui.view"})

\* record.xpath(".//field[@name='...']")
XPathFields(doc, record, field_name) ==
    {j \in Descendants(doc, record) : doc[j].tag = "field" /\ doc[j].name = field_name}

\* element.xpath(".//tag")
XPathBelow(doc, i, tag) == {j \in Descendants(doc, i) : doc[j].tag = tag}

---------------------------------------------------------------------------
(* get_view_type_from_xml *)

VIEW_TYPES ==
    <<"list", "tree", "form", "search", "kanban", "graph", "pivot", "calendar", "activity">>

ViewTypeSet == {VIEW_TYPES[t] : t \in 1..Len(VIEW_TYPES)}

\* The loop without the mapping of tree to list: what C11 rules out.
RECURSIVE FirstTypeBelowKeepsTree(_, _, _)
FirstTypeBelowKeepsTree(doc, i, types) ==
    IF types = <<>> THEN None
    ELSE IF XPathBelow(doc, i, Head(types)) # {}
    THEN Head(types)
    ELSE FirstTypeBelowKeepsTree(doc, i, Tail(types))

\* The for loop over the view types below element i: the first type with a
\* match, tree returned as list; None when the loop ends.
RECURSIVE FirstTypeBelow(_, _, _)
FirstTypeBelow(doc, i, types) ==
    IF types = <<>> THEN None
    ELSE IF XPathBelow(doc, i, Head(types)) # {}
    THEN (IF Head(types) = "tree" THEN "list" ELSE Head(types))
    ELSE FirstTypeBelow(doc, i, Tail(types))

\* Lines 50-58: the records in document order; the first one whose arch holds
\* a view type decides.
RECURSIVE TypeFromRecords(_, _)
TypeFromRecords(doc, records) ==
    IF records = <<>> THEN None
    ELSE LET arch_field == XPathFields(doc, Head(records), "arch")
             found == IF arch_field = {} THEN None
                      ELSE FirstTypeBelow(doc, SetMin(arch_field), VIEW_TYPES)
         IN  IF found # None THEN found ELSE TypeFromRecords(doc, Tail(records))

GetViewTypeFromXml(doc) ==
    LET in_records == TypeFromRecords(doc, XPathViewRecords(doc))
    IN  IF in_records # None THEN in_records
        ELSE FirstTypeBelow(doc, 1, VIEW_TYPES)

---------------------------------------------------------------------------
(* validate_odoo_view_conventions *)

Finding(rule, line, detail) == [rule |-> rule, line |-> line, detail |-> detail]

AllElements(doc) == [i \in 1..Len(doc) |-> i]

\* Lines 197-202 with one finding for the document rather than one for each
\* tree element: what C15 rules out.
DeprecatedTreeOnce(doc, view_type) ==
    IF view_type = "list" /\ \E i \in 1..Len(doc) : doc[i].tag = "tree"
    THEN <<Finding("deprecated_tree",
                   SetMin({i \in 1..Len(doc) : doc[i].tag = "tree"}), <<>>)>>
    ELSE <<>>

\* Lines 197-202
DeprecatedTreeFindings(doc, view_type) ==
    IF view_type = "list"
    THEN ConcatMap(LAMBDA i : IF doc[i].tag = "tree"
                              THEN <<Finding("deprecated_tree", i, <<>>)>> ELSE <<>>,
                   AllElements(doc))
    ELSE <<>>

\* Lines 205-218
AttrsStatesFindings(doc) ==
    ConcatMap(LAMBDA i :
                 IF doc[i].attrs # Absent \/ doc[i].states # Absent
                 THEN (IF Truthy(doc[i].attrs)
                       THEN <<Finding("deprecated_attrs", i, <<doc[i].tag, doc[i].attrs>>)>>
                       ELSE <<>>)
                      \o (IF Truthy(doc[i].states)
                          THEN <<Finding("deprecated_states", i,
                                         <<doc[i].tag, doc[i].states>>)>>
                          ELSE <<>>)
                 ELSE <<>>,
              AllElements(doc))

\* Lines 221-233
RecordFindings(doc) ==
    ConcatMap(LAMBDA r :
                 (IF ~Truthy(doc[r].id)
                  THEN <<Finding("missing_id", r, <<>>)>> ELSE <<>>)
                 \o ConcatMap(LAMBDA field_name :
                                 IF XPathFields(doc, r, field_name) = {}
                                 THEN <<Finding("missing_field", r,
                                                <<doc[r].id, field_name>>)>>
                                 ELSE <<>>,
                              <<"name", "model", "arch">>),
              XPathViewRecords(doc))

\* Lines 236-239
StringFindings(doc) ==
    ConcatMap(LAMBDA i :
                 IF /\ doc[i].tag \in ViewTypeSet
                    /\ ~Truthy(doc[i].string)
                    /\ doc[i].tag # "search"
                 THEN <<Finding("missing_string", i, <<doc[i].tag>>)>> ELSE <<>>,
              AllElements(doc))

\* Lines 242-245
FieldNameFindings(doc) ==
    ConcatMap(LAMBDA i :
                 IF doc[i].tag = "field" /\ ~Truthy(doc[i].name)
                 THEN <<Finding("field_without_name", i, <<>>)>> ELSE <<>>,
              AllElements(doc))

ValidateOdooViewConventions(doc, view_type) ==
    DeprecatedTreeFindings(doc, view_type)
    \o AttrsStatesFindings(doc)
    \o RecordFindings(doc)
    \o StringFindings(doc)
    \o FieldNameFindings(doc)

---------------------------------------------------------------------------
(* extract_view_elements_for_rng and validate_view_with_rng *)

\* Lines 72-78, then lines 81-82.
ExtractViewElementsForRng(doc, view_type) ==
    ConcatMap(LAMBDA r :
                 LET arch_field == XPathFields(doc, r, "arch")
                 IN  IF arch_field = {} THEN <<>>
                     ELSE SortedSeq(XPathBelow(doc, SetMin(arch_field), view_type)),
              XPathViewRecords(doc))
    \o SortedSeq(XPathBelow(doc, 1, view_type))

\* Lines 94-96: the finding when a schema is missing.
SkipFindings(view_type) == <<Finding("rng_skipped", 0, <<view_type>>)>>

\* The loop of lines 126-130 left at the first element that fails: what C23
\* rules out.
ValidateElementsStopsAtFirst(doc, view_type, common_schema, view_schema) ==
    LET view_elements == ExtractViewElementsForRng(doc, view_type)
        failed == {k \in 1..Len(view_elements) : ~doc[view_elements[k]].valid}
    IN  IF view_elements = <<>> \/ failed = {} THEN <<>>
        ELSE IF common_schema # "rng" \/ view_schema # "rng"
        THEN <<Finding("rng_failed", 0, <<view_type>>)>>
        ELSE <<Finding("rng_error", view_elements[SetMin(failed)], <<view_type>>)>>

\* Lines 98-137 with both schema texts at hand.  A text that is not the schema
\* makes etree.parse or etree.RelaxNG raise, which line 136 turns into one
\* finding; otherwise every extracted element is validated on its own.
ValidateElements(doc, view_type, common_schema, view_schema) ==
    LET view_elements == ExtractViewElementsForRng(doc, view_type)
    IN  IF view_elements = <<>> THEN <<>>
        ELSE IF common_schema # "rng" \/ view_schema # "rng"
        THEN <<Finding("rng_failed", 0, <<view_type>>)>>
        ELSE ConcatMap(LAMBDA i : IF doc[i].valid THEN <<>>
                                  ELSE <<Finding("rng_error", i, <<view_type>>)>>,
                       view_elements)

\* not schema, for a schema that is None or a text
NotSchema(schema) == schema = None \/ schema = ""

FetchEntry(caller, schema_type, net, d, before) ==
    [caller |-> caller, key |-> schema_type,
     net |-> IF d.requested THEN net ELSE None, requested |-> d.requested,
     ret |-> d.ret, raised |-> d.raised, before |-> before, after |-> d.cache]

\* validate_view_with_rng: the two downloads of lines 91-92, then the rest.
ValidateViewWithRng(cache, doc, view_type, net_common, net_view) ==
    LET common == DownloadRngSchema(cache, "common", net_common)
        view   == DownloadRngSchema(common.cache, view_type, net_view)
    IN  [errors |-> IF NotSchema(common.ret) \/ NotSchema(view.ret)
                    THEN SkipFindings(view_type)
                    ELSE ValidateElements(doc, view_type, common.ret, view.ret),
         cache  |-> view.cache,
         log    |-> <<FetchEntry(0, "common", net_common, common, cache),
                      FetchEntry(0, view_type, net_view, view, common.cache)>>]

---------------------------------------------------------------------------
(* lint_xml_file *)

\* The text of an element after parsing: "a & b" comes from a &amp; b in the
\* file, "a &amp; b" from a &amp;amp; b.
HasAmpersand(text) == text \in {"a & b", "a &amp; b"}
HasAmpEntity(text) == text = "a &amp; b"

\* Lines 259-261
AmpersandFindings(doc) ==
    ConcatMap(LAMBDA i :
                 IF doc[i].text # "" /\ HasAmpersand(doc[i].text)
                    /\ ~HasAmpEntity(doc[i].text)
                 THEN <<Finding("unescaped_amp", i, <<doc[i].tag>>)>> ELSE <<>>,
              AllElements(doc))

\* Lines 264-275 with the schema findings in place of the convention findings
\* rather than after them: what C10 rules out.
ViewFindingsRngOnly(cache, doc, view_type, skip_rng, net_common, net_view) ==
    LET convention_errors == ValidateOdooViewConventions(doc, view_type)
        rng == ValidateViewWithRng(cache, doc, view_type, net_common, net_view)
    IN  IF ~skip_rng /\ view_type \in RNG_SCHEMA_KEYS
        THEN [errors |-> rng.errors, cache |-> rng.cache, log |-> rng.log]
        ELSE [errors |-> convention_errors, cache |-> cache, log |-> <<>>]

\* Lines 264-275 without the test of skip_rng at line 272: what C24 rules out.
ViewFindingsIgnoresSkip(cache, doc, view_type, skip_rng, net_common, net_view) ==
    LET convention_errors == ValidateOdooViewConventions(doc, view_type)
        rng == ValidateViewWithRng(cache, doc, view_type, net_common, net_view)
    IN  IF view_type \in RNG_SCHEMA_KEYS
        THEN [errors |-> convention_errors \o rng.errors, cache |-> rng.cache,
              log |-> rng.log]
        ELSE [errors |-> convention_errors, cache |-> cache, log |-> <<>>]

\* Lines 264-275.  The convention findings come before the schema findings.
ViewFindings(cache, doc, view_type, skip_rng, net_common, net_view) ==
    LET convention_errors == ValidateOdooViewConventions(doc, view_type)
        rng == ValidateViewWithRng(cache, doc, view_type, net_common, net_view)
    IN  IF ~skip_rng /\ view_type \in RNG_SCHEMA_KEYS
        THEN [errors |-> convention_errors \o rng.errors, cache |-> rng.cache,
              log |-> rng.log]
        ELSE [errors |-> convention_errors, cache |-> cache, log |-> <<>>]

\* lint_xml_file with the parse error reported twice: what C17 rules out.
LintXmlFileReportsTwice(cache, file, validate_views, skip_rng, net_common, net_view) ==
    IF file.kind = "unreadable"
    THEN [errors |-> <<>>, cache |-> cache, log |-> <<>>, raised |-> TRUE]
    ELSE IF file.kind = "malformed"
    THEN [errors |-> <<Finding("syntax_error", 0, <<>>), Finding("syntax_error", 0, <<>>)>>,
          cache |-> cache, log |-> <<>>, raised |-> FALSE]
    ELSE LET doc == file.doc
             view_type == GetViewTypeFromXml(doc)
             v == ViewFindings(cache, doc, view_type, skip_rng, net_common, net_view)
         IN  IF validate_views /\ view_type # None
             THEN [errors |-> AmpersandFindings(doc) \o v.errors, cache |-> v.cache,
                   log |-> v.log, raised |-> FALSE]
             ELSE [errors |-> AmpersandFindings(doc), cache |-> cache, log |-> <<>>,
                   raised |-> FALSE]

\* A file is a parsed document, text that the parser rejects, or a path that
\* cannot be read.  etree.parse raises XMLSyntaxError for the second, which
\* line 277 catches, and OSError for the third, which nothing catches: the
\* call raises.
LintXmlFile(cache, file, validate_views, skip_rng, net_common, net_view) ==
    IF file.kind = "unreadable"
    THEN [errors |-> <<>>, cache |-> cache, log |-> <<>>, raised |-> TRUE]
    ELSE IF file.kind = "malformed"
    THEN [errors |-> <<Finding("syntax_error", 0, <<>>)>>, cache |-> cache, log |-> <<>>,
          raised |-> FALSE]
    ELSE LET doc == file.doc
             view_type == GetViewTypeFromXml(doc)
             v == ViewFindings(cache, doc, view_type, skip_rng, net_common, net_view)
         IN  IF validate_views /\ view_type # None
             THEN [errors |-> AmpersandFindings(doc) \o v.errors, cache |-> v.cache,
                   log |-> v.log, raised |-> FALSE]
             ELSE [errors |-> AmpersandFindings(doc), cache |-> cache, log |-> <<>>,
                   raised |-> FALSE]

---------------------------------------------------------------------------
(* The files of a lint run *)

Shift(nodes, d) == [i \in DOMAIN nodes |-> [nodes[i] EXCEPT !.depth = @ + d]]

Field(name, depth) == [El("field", depth) EXCEPT !.name = name]

\* <record model="ir.ui.view"> with or without an id and the name and model
\* fields, and an arch field around the body.
ViewRecordEl(id, with_fields, body) ==
    <<[El("record", 1) EXCEPT !.model = "ir.ui.view", !.id = id]>>
    \o (IF with_fields THEN <<Field("name", 2), Field("model", 2)>> ELSE <<>>)
    \o <<Field("arch", 2)>>
    \o Shift(body, 3)

ListBody(valid) ==
    <<[El("list", 0) EXCEPT !.string = "L", !.valid = valid],
      [Field("a", 1) EXCEPT !.attrs = "{'invisible': 1}"]>>

TreeBody == <<El("tree", 0), Field("a", 1)>>

FormBody ==
    <<[El("form", 0) EXCEPT !.string = "F"],
      [Field("state", 1) EXCEPT !.states = "draft"],
      El("field", 1)>>

SearchBody ==
    <<[El("search", 0) EXCEPT !.valid = FALSE],
      [Field("a", 1) EXCEPT !.text = "a & b"]>>

KanbanBody == <<El("kanban", 0), [Field("a", 1) EXCEPT !.states = "draft"]>>

OdooDoc(records) == <<El("odoo", 0)>> \o records

XmlFile(doc) == [kind |-> "xml", doc |-> doc]

MalformedFile == [kind |-> "malformed", doc |-> <<>>]

\* A path that rglob('*.xml') yields and etree.parse cannot read: a file
\* without read permission, a dangling link, a directory called x.xml.
UnreadableFile == [kind |-> "unreadable", doc |-> <<>>]

\* The files on disk that a lint run can be given, by path.
DiskFile(path) ==
    CASE path = "list.xml" ->
           XmlFile(OdooDoc(ViewRecordEl("v1", TRUE, ListBody(TRUE))))
      [] path = "list_invalid.xml" ->
           XmlFile(OdooDoc(ViewRecordEl("v1", TRUE, ListBody(FALSE))))
      [] path = "tree.xml" ->
           XmlFile(OdooDoc(ViewRecordEl("v1", TRUE, TreeBody)))
      [] path = "form_bare.xml" ->
           XmlFile(OdooDoc(ViewRecordEl("", FALSE, FormBody)))
      [] path = "search.xml" ->
           XmlFile(OdooDoc(ViewRecordEl("v1", TRUE, SearchBody)))
      [] path = "form_list.xml" ->
           XmlFile(OdooDoc(ViewRecordEl("v1", TRUE, FormBody)
                           \o ViewRecordEl("v2", TRUE, ListBody(FALSE))))
      [] path = "kanban.xml" ->
           XmlFile(OdooDoc(ViewRecordEl("v1", TRUE, KanbanBody)))
      [] path = "unreadable.xml" ->
           UnreadableFile
      [] path = "menu.xml" ->
           XmlFile(<<El("odoo", 0), El("menuitem", 1)>>)
      [] path = "broken.xml" ->
           MalformedFile

LintPaths ==
    {"list.xml", "list_invalid.xml", "tree.xml", "form_bare.xml", "search.xml",
     "form_list.xml", "kanban.xml", "unreadable.xml", "menu.xml", "broken.xml"}

\* The disk as a function from path to file.
Disk == [path \in LintPaths |-> DiskFile(path)]

\* What a request of the lint run can come to: one kind of failure stands for
\* the three, which download_rng_schema treats alike.
LintNetOutcomes == {"timeout"} \cup NetTexts

---------------------------------------------------------------------------
(* views and xml: the lint commands *)

\* The outcomes to draw for a call of download_rng_schema made on `cache`: a
\* call that makes no request has none.
RequestOutcomes(cache, schema_type, wanted) ==
    IF wanted /\ BeforeRequest(cache, schema_type).step = "get"
    THEN LintNetOutcomes ELSE {None}

\* The condition of line 272 for the file: schema validation is run.
RunsRng(file, validate_views, skip_rng) ==
    /\ file.kind = "xml"
    /\ validate_views
    /\ ~skip_rng
    /\ GetViewTypeFromXml(file.doc) \in RNG_SCHEMA_KEYS

\* One turn of the for loop of lines 313-324 (views) or 359-370 (xml).
LintFile ==
    /\ lintIdx <= Len(lintFiles)
    /\ ~summary.done
    /\ LET file == Disk[lintFiles[lintIdx]]
           validate_views == command = "views"
           skip_rng == skipRng
           wanted == RunsRng(file, validate_views, skip_rng)
           view_type == IF wanted THEN GetViewTypeFromXml(file.doc) ELSE None
       IN  \E net_common \in RequestOutcomes(schemaCache, "common", wanted),
              net_view \in RequestOutcomes(schemaCache, view_type, wanted) :
             LET r == LintXmlFile(schemaCache, file, validate_views, skip_rng,
                                  net_common, net_view)
             IN  IF r.raised
                 THEN \* the exception leaves the loop and the command
                      /\ summary' = [summary EXCEPT !.done = TRUE, !.aborted = TRUE,
                                                    !.exit = 1]
                      /\ UNCHANGED <<results, schemaCache, fetchLog, lintIdx>>
                 ELSE /\ results' = Append(results,
                                           [errors |-> r.errors, fetches |-> r.log,
                                            before |-> schemaCache, after |-> r.cache])
                      /\ schemaCache' = r.cache
                      /\ fetchLog' = fetchLog \o r.log
                      /\ summary' = IF r.errors # <<>>
                                    THEN [summary EXCEPT
                                            !.files_with_errors = @ + 1,
                                            !.total_errors = @ + Len(r.errors)]
                                    ELSE summary
                      /\ lintIdx' = lintIdx + 1
    /\ UNCHANGED <<lintFiles, skipRng, command, thread, started, fsVars, ruleVars>>

\* A run that always ends with status 0: what C19 rules out.
ExitStatusAlwaysZero(total_errors) == total_errors - total_errors

\* Lines 326-330 and 372-376: typer.Exit(1) when there are errors.
ExitStatus(total_errors) == IF total_errors > 0 THEN 1 ELSE 0

\* Lines 300-304 and 346-350: no path is given and find_project_root finds no
\* root; nothing has been collected and the command exits with status 1.
LintNoProjectRoot ==
    /\ lintFiles = <<>>
    /\ ~summary.done
    /\ summary' = [summary EXCEPT !.done = TRUE, !.no_root = TRUE, !.exit = 1]
    /\ UNCHANGED <<lintFiles, skipRng, command, lintIdx, results, schemaCache, fetchLog,
                   thread, started, fsVars, ruleVars>>

\* Lines 326-330 and 372-376.
LintFinish ==
    /\ lintIdx = Len(lintFiles) + 1
    /\ ~summary.done
    /\ summary' = [summary EXCEPT !.done = TRUE,
                                  !.exit = ExitStatus(summary.total_errors)]
    /\ UNCHANGED <<lintFiles, skipRng, command, lintIdx, results, schemaCache, fetchLog,
                   thread, started, fsVars, ruleVars>>

NoSummary ==
    [done |-> FALSE, total_errors |-> 0, files_with_errors |-> 0, exit |-> 0,
     aborted |-> FALSE, no_root |-> FALSE]

\* No lint run.
LintIdle ==
    /\ lintFiles = <<>>
    /\ skipRng = FALSE
    /\ command = "views"
    /\ lintIdx = 1
    /\ results = <<>>
    /\ summary = NoSummary

LintInit ==
    /\ lintFiles \in UNION {[1..n -> LintPaths] : n \in 0..MaxLintFiles}
    /\ command \in {"views", "xml"}
    /\ skipRng \in (IF command = "views" THEN BOOLEAN ELSE {FALSE})
    /\ lintIdx = 1
    /\ results = <<>>
    /\ summary = NoSummary

---------------------------------------------------------------------------
(* The classifier and the convention rules on one parsed document *)

MaxRuns == 2         \* calls of validate_odoo_view_conventions on one document

Unset == "unset"

\* A view record with its name and model fields and no arch field.
RecordNoArch(id) ==
    <<[El("record", 1) EXCEPT !.model = "ir.ui.view", !.id = id],
      Field("name", 2), Field("model", 2)>>

\* The arch of an inheriting view: no view tag in it.
XPathBody == <<El("xpath", 0), Field("x_note", 1)>>

\* A form whose markup shows the fields called name and model.
FormNameBody ==
    <<[El("form", 0) EXCEPT !.string = "F"], Field("name", 1), Field("model", 1)>>

\* A form with a list nested in it.
FormListBody ==
    <<[El("form", 0) EXCEPT !.string = "F"], Field("line_ids", 1),
      [El("list", 2) EXCEPT !.string = "L"], Field("a", 3)>>

\* A form with a button whose states attribute is set and empty, and a field
\* whose states attribute names a state.
StatesBody ==
    <<[El("form", 0) EXCEPT !.string = "F"],
      [El("button", 1) EXCEPT !.states = ""],
      [Field("a", 1) EXCEPT !.states = "draft"]>>

RecordIds == {Absent, "", "v1"}

ArchBodies ==
    {ListBody(TRUE), TreeBody, FormBody, SearchBody, XPathBody, FormNameBody, FormListBody}

PairBodies == {ListBody(TRUE), TreeBody, FormBody, XPathBody}

\* The documents handed to the classifier and the rules: one record, a record
\* without arch, two records, and documents without records.
RuleDocs ==
    {OdooDoc(ViewRecordEl(id, with_fields, body)) :
        id \in RecordIds, with_fields \in BOOLEAN, body \in ArchBodies}
    \cup {OdooDoc(RecordNoArch(id)) : id \in RecordIds}
    \cup {OdooDoc(RecordNoArch("v1") \o Shift(ListBody(TRUE), 2)),
          OdooDoc(ViewRecordEl("v1", TRUE, StatesBody))}
    \cup {OdooDoc(ViewRecordEl("v1", TRUE, b1) \o ViewRecordEl(id2, TRUE, b2)) :
            b1 \in PairBodies, b2 \in PairBodies, id2 \in {Absent, "v2"}}
    \cup {ListBody(TRUE), TreeBody, FormBody,
          <<El("data", 0)>> \o Shift(ListBody(TRUE), 1),
          <<El("tree", 0)>> \o Shift(TreeBody, 1),
          <<El("odoo", 0), El("menuitem", 1)>>}

\* The view types validate_odoo_view_conventions is called with.
RuleTypeArgs == {"list", "form", "search"}

\* A list kept from call to call: what C16 rules out.
ReturnedWithEarlier(earlier, found) == earlier \o found

\* Lines 194 and 247: the list a call returns is made in the call, so it holds
\* the findings of this call and nothing of an earlier one.
ReturnedErrors(earlier, found) == found

\* root is parsed; get_view_type_from_xml(root)
Classify ==
    /\ ruleType = Unset
    /\ ruleType' = GetViewTypeFromXml(ruleDoc)
    /\ UNCHANGED <<ruleDoc, ruleRuns, ruleLint, rngRuns, suggested, fsVars, fetchVars,
                   lintVars>>

\* validate_odoo_view_conventions(root, view_type): the function reads the
\* tree (xpath, get, tag, sourceline) and never writes to it.
Validate ==
    /\ Len(ruleRuns) < MaxRuns
    /\ \E view_type \in RuleTypeArgs :
         LET earlier == IF ruleRuns = <<>> THEN <<>>
                        ELSE ruleRuns[Len(ruleRuns)].errors
             found   == ValidateOdooViewConventions(ruleDoc, view_type)
         IN  ruleRuns' = Append(ruleRuns,
                                [view_type |-> view_type,
                                 errors |-> ReturnedErrors(earlier, found),
                                 root |-> ruleDoc])
    /\ UNCHANGED <<ruleDoc, ruleType, ruleLint, rngRuns, suggested, fsVars, fetchVars,
                   lintVars>>

\* lint_xml_file(file_path, validate_views=True, skip_rng=True) on the file
\* that holds the document.
LintDoc ==
    /\ ~ruleLint.done
    /\ ruleLint' = [done |-> TRUE,
                    errors |-> LintXmlFile(EmptyCache, XmlFile(ruleDoc), TRUE, TRUE,
                                           None, None).errors]
    /\ UNCHANGED <<ruleDoc, ruleType, ruleRuns, rngRuns, suggested, fsVars, fetchVars,
                   lintVars>>

NotLinted == [done |-> FALSE, errors |-> <<>>]

\* No document under the rules.
RulesIdle ==
    /\ ruleDoc = <<>>
    /\ ruleType = Unset
    /\ ruleRuns = <<>>
    /\ ruleLint = NotLinted
    /\ rngRuns = <<>>
    /\ suggested = <<>>

RulesInit ==
    /\ ruleDoc \in RuleDocs
    /\ ruleType = Unset
    /\ ruleRuns = <<>>
    /\ ruleLint = NotLinted
    /\ rngRuns = <<>>
    /\ suggested = <<>>

---------------------------------------------------------------------------
(* validate_view_with_rng on one parsed document *)

\* Two subtrees of one type side by side, each valid or not.
TwoLists(a, b, depth) == Shift(ListBody(a), depth) \o Shift(ListBody(b), depth)

\* The documents handed to validate_view_with_rng: two lists in two records,
\* two lists outside any record, a form, a search, and a list that is the root.
RngDocs ==
    {OdooDoc(ViewRecordEl("v1", TRUE, ListBody(a)) \o ViewRecordEl("v2", TRUE, ListBody(b))) :
        a \in BOOLEAN, b \in BOOLEAN}
    \cup {<<El("data", 0)>> \o TwoLists(a, b, 1) : a \in BOOLEAN, b \in BOOLEAN}
    \cup {OdooDoc(ViewRecordEl("v1", TRUE, FormBody)),
          OdooDoc(ViewRecordEl("v1", TRUE, SearchBody)),
          ListBody(FALSE)}

\* The view types validate_view_with_rng is called with: line 272 lets in the
\* keys of RNG_SCHEMA_URLS only.
RngTypeArgs == {"list", "search"}

\* validate_view_with_rng(xml_content, view_type): the document is parsed anew
\* from its text, the schemas come from the cache or from the network.
ValidateRng ==
    /\ Len(rngRuns) < MaxRuns
    /\ \E view_type \in RngTypeArgs :
         \E net_common \in RequestOutcomes(schemaCache, "common", TRUE),
            net_view \in RequestOutcomes(schemaCache, view_type, TRUE) :
           LET r == ValidateViewWithRng(schemaCache, ruleDoc, view_type,
                                        net_common, net_view)
           IN  /\ rngRuns' = Append(rngRuns,
                                    [view_type |-> view_type, errors |-> r.errors,
                                     root |-> ruleDoc, common |-> r.log[1].ret,
                                     view |-> r.log[2].ret])
               /\ schemaCache' = r.cache
               /\ fetchLog' = fetchLog \o r.log
    /\ UNCHANGED <<ruleDoc, ruleType, ruleRuns, ruleLint, suggested, thread, started,
                   fsVars, lintVars>>

RngInit ==
    /\ ruleDoc \in RngDocs
    /\ ruleType = Unset
    /\ ruleRuns = <<>>
    /\ ruleLint = NotLinted
    /\ rngRuns = <<>>
    /\ suggested = <<>>

---------------------------------------------------------------------------
(* get_attrs_replacement_suggestion *)
(* A text is the sequence of its pieces; `needle in text` is true when the  *)
(* needle's pieces are consecutive pieces of the text.  The pieces are cut  *)
(* so that every needle of the function lies on piece boundaries.           *)

Contains(text, needle) ==
    \E i \in 0..(Len(text) - Len(needle)) :
        SubSeq(text, i + 1, i + Len(needle)) = needle

\* 'key': value, as it stands in the dict of an attrs attribute
Entry(key, value) == <<"'">> \o key \o <<"'", ": ">> \o value

\* ('field', 'op', 'value'), one term of a domain
Term(field, op) ==
    <<"(", "'">> \o field \o <<"'", ", ", "'">> \o op \o <<"'", ", ", "'", "x", "'", ")">>

AttrsKeys == {<<"invisible">>, <<"readonly">>, <<"required">>, <<"column_", "invisible">>}

\* The values of the keys: the constants, a domain of one term on state with =
\* and with !=, one on another field, and domains that begin with the
\* operator '|' or '&' or hold it after the first term.
AttrsForms ==
    {<<"1">>, <<"True">>, <<"0">>, <<"False">>,
     <<"[">> \o Term(<<"state">>, <<"=">>) \o <<"]">>,
     <<"[">> \o Term(<<"state">>, <<"!", "=">>) \o <<"]">>,
     <<"[">> \o Term(<<"active">>, <<"=">>) \o <<"]">>,
     <<"[", "'", "|", "'", ", ">> \o Term(<<"state">>, <<"=">>) \o <<", ">>
         \o Term(<<"active">>, <<"=">>) \o <<"]">>,
     <<"[", "'", "&", "'", ", ">> \o Term(<<"state">>, <<"=">>) \o <<", ">>
         \o Term(<<"active">>, <<"=">>) \o <<"]">>,
     <<"[">> \o Term(<<"active">>, <<"=">>) \o <<", ", "'", "|", "'", ", ">>
         \o Term(<<"state">>, <<"=">>) \o <<", ">> \o Term(<<"state">>, <<"!", "=">>)
         \o <<"]">>}

\* The attrs values the function is called with: a dict of one entry, and texts
\* that are no dict.
AttrsValues ==
    {<<"{">> \o Entry(key, form) \o <<"}">> : key \in AttrsKeys, form \in AttrsForms}
    \cup {<<>>, <<"garbage">>, <<"a", "|", "b">>, <<"a", "&", "b">>}

OrNote  == "(Note: Use 'or' for '|' operators)"
AndNote == "(Note: Use 'and' for '&' operators)"
GenericSuggestion == "Use direct attributes (invisible, readonly, required, column_invisible)"

\* Lines 146-156, 158-169 (with_ne) and 171-177 (neither): the suggestion for
\* one key.
KeySuggestion(attrs_value, key, with_state, with_ne) ==
    IF ~Contains(attrs_value, <<key>>) THEN <<>>
    ELSE IF \/ Contains(attrs_value, Entry(<<key>>, <<"1">>))
            \/ Contains(attrs_value, Entry(<<key>>, <<"True">>))
    THEN <<key \o "=\"True\"">>
    ELSE IF \/ Contains(attrs_value, Entry(<<key>>, <<"0">>))
            \/ Contains(attrs_value, Entry(<<key>>, <<"False">>))
    THEN <<key \o "=\"False\"">>
    ELSE IF Contains(attrs_value, <<"[", "(">>)
    THEN (IF /\ with_ne
             /\ Contains(attrs_value, <<"state">>)
             /\ Contains(attrs_value, <<"!", "=">>)
          THEN <<key \o "=\"state != 'draft'\"">>
          ELSE IF /\ with_state
                  /\ Contains(attrs_value, <<"state">>)
                  /\ Contains(attrs_value, <<"=">>)
          THEN <<key \o "=\"state == 'value'\"">>
          ELSE <<key \o "=\"condition\"">>)
    ELSE <<>>

\* Lines 180-185: the notes are added to suggestions that are there.
Notes(attrs_value, suggestions) ==
    (IF Contains(attrs_value, <<"|">>) /\ suggestions # <<>> THEN <<OrNote>> ELSE <<>>)
    \o (IF Contains(attrs_value, <<"&">>) /\ suggestions # <<>>
        THEN <<AndNote>> ELSE <<>>)

\* The function: the text returned is its parts, which ' '.join puts in a row.
GetAttrsReplacementSuggestion(attrs_value) ==
    LET suggestions == KeySuggestion(attrs_value, "invisible", TRUE, FALSE)
                       \o KeySuggestion(attrs_value, "readonly", TRUE, TRUE)
                       \o KeySuggestion(attrs_value, "required", FALSE, FALSE)
    IN  IF suggestions # <<>>
        THEN suggestions \o Notes(attrs_value, suggestions)
        ELSE <<GenericSuggestion>>

\* get_attrs_replacement_suggestion(attrs_value)
Suggest ==
    /\ Len(suggested) < MaxRuns
    /\ \E attrs_value \in AttrsValues :
         suggested' = Append(suggested,
                             [attrs_value |-> attrs_value,
                              ret |-> GetAttrsReplacementSuggestion(attrs_value)])
    /\ UNCHANGED <<ruleDoc, ruleType, ruleRuns, ruleLint, rngRuns, fsVars, fetchVars,
                   lintVars>>

---------------------------------------------------------------------------
(* Reading the history of calls *)

\* The extend calls that got past the module lookup.
ExtendCalls == {i \in 1..Len(hist) : hist[i].op = "extend" /\ hist[i].result # "exit1"}

\* The calls that wrote a file.
WriteCalls == {i \in 1..Len(hist) : hist[i].result \in {"updated", "created", "appended"}}

\* The files whose content differs between before and after the call.
Changed(h) ==
    {n \in (DOMAIN h.before) \cup (DOMAIN h.after) :
        \/ n \notin DOMAIN h.before
        \/ n \notin DOMAIN h.after
        \/ h.before[n] # h.after[n]}

Created(h) == (DOMAIN h.after) \ (DOMAIN h.before)

\* The positions of the view records of a parsed file that inherit from view_id.
Matches(content, view_id) ==
    IF Parses(content)
    THEN {m \in ViewRecordPositions(content) : content[m].inherit = view_id}
    ELSE {}

MatchingFiles(h) == {n \in DOMAIN h.before : Matches(h.before[n], h.view_id) # {}}

\* The record at position m of file n has gained frag as the last child of its arch.
GainedFragment(h, n, m) ==
    /\ n \in DOMAIN h.after
    /\ Len(h.after[n]) = Len(h.before[n])
    /\ h.after[n][m].arch = Append(h.before[n][m].arch, h.frag)
    /\ \A k \in 1..Len(h.before[n]) : k # m => h.after[n][k] = h.before[n][k]

\* The first file of the search order that holds a match.
FirstMatchingFile(h) ==
    h.order[SetMin({k \in 1..Len(h.order) : h.order[k] \in MatchingFiles(h)})]

\* One wrapper: <odoo> first, </odoo> last, neither in between.
SingleWrapper(content) ==
    /\ Len(content) >= 2
    /\ content[1] = OdooOpen
    /\ content[Len(content)] = OdooClose
    /\ \A k \in 2..(Len(content) - 1) : content[k] \notin {OdooOpen, OdooClose}

\* The tokens of a text other than the wrapper's tags.
RECURSIVE Inner(_)
Inner(content) ==
    IF content = <<>> THEN <<>>
    ELSE (IF Head(content) \in {OdooOpen, OdooClose} THEN <<>> ELSE <<Head(content)>>)
         \o Inner(Tail(content))

ContentBefore(h, n) == IF n \in DOMAIN h.before THEN h.before[n] ELSE <<>>

---------------------------------------------------------------------------
(* Claims *)

\* C1: if the fragment to insert is malformed, the extend call fails as a whole:
\* no existing file is modified and no file is created, whether or not a
\* candidate file inherits from the target.
C1_MalformedFragmentFailsCall ==
    \A i \in ExtendCalls :
        ~FragmentParses(hist[i].frag) =>
            /\ hist[i].after = hist[i].before
            /\ hist[i].result \notin {"updated", "created"}

\* C2: one extend call writes at most one file; when several records inherit
\* from the target, in one file or in several, only the first match in search
\* order gains the fragment, every other file is unchanged and no file is created.
C2_AtMostOneFileFirstMatchOnly ==
    \A i \in ExtendCalls :
        LET h == hist[i]
            several == \/ Cardinality(MatchingFiles(h)) >= 2
                       \/ \E n \in MatchingFiles(h) :
                            Cardinality(Matches(h.before[n], h.view_id)) >= 2
        IN  /\ Cardinality(Changed(h)) <= 1
            /\ several =>
                 LET n == FirstMatchingFile(h)
                     m == SetMin(Matches(h.before[n], h.view_id))
                 IN  /\ GainedFragment(h, n, m)
                     /\ Changed(h) = {n}
                     /\ Created(h) = {}

\* C3: when a candidate file holds a view record that inherits from the target,
\* extend adds the fragment as the last child of that record's arch, after the
\* arch's earlier children, and creates no file.
C3_MatchGainsFragmentLast ==
    \A i \in ExtendCalls :
        LET h == hist[i]
        IN  MatchingFiles(h) # {} =>
              /\ Created(h) = {}
              /\ \E n \in MatchingFiles(h) :
                   \E m \in Matches(h.before[n], h.view_id) : GainedFragment(h, n, m)

\* C4: when no candidate file holds a view record that inherits from the target,
\* extend creates exactly one file, which holds exactly one view record: it
\* inherits from the target, has the caller's model and has the fragment as the
\* body of its arch; no existing file is modified.
C4_NoMatchCreatesOneFile ==
    \A i \in ExtendCalls :
        LET h == hist[i]
        IN  MatchingFiles(h) = {} =>
              /\ Cardinality(Created(h)) = 1
              /\ \A n \in DOMAIN h.before : n \in DOMAIN h.after /\ h.after[n] = h.before[n]
              /\ \A n \in Created(h) :
                   LET c == h.after[n]
                   IN  /\ Len(c) = 3
                       /\ SingleWrapper(c)
                       /\ c[2].kind = "record"
                       /\ c[2].model = "ir.ui.view"
                       /\ c[2].inherit = h.view_id
                       /\ c[2].fmodel = h.model_name
                       /\ c[2].hasArch
                       /\ c[2].arch = <<h.frag>>

\* C5: from a directory with no file inheriting from the target, extend for the
\* target and then extend for the same target with a different fragment leave
\* exactly one new file, whose record's arch holds both fragments in call order.
C5_RoundTripUpdatesCreatedFile ==
    \A i \in ExtendCalls :
        (/\ i + 1 \in ExtendCalls
         /\ hist[i + 1].view_id = hist[i].view_id
         /\ hist[i + 1].frag # hist[i].frag
         /\ MatchingFiles(hist[i]) = {}) =>
            LET new == (DOMAIN hist[i + 1].after) \ (DOMAIN hist[i].before)
            IN  /\ Cardinality(new) = 1
                /\ \A n \in new :
                     \E m \in 1..Len(hist[i + 1].after[n]) :
                        /\ hist[i + 1].after[n][m].inherit = hist[i].view_id
                        /\ hist[i + 1].after[n][m].arch = <<hist[i].frag, hist[i + 1].frag>>

\* C6: every file a persistence operation writes has exactly one top-level
\* wrapper with all content inside it, and _append_xml_to_file puts the new
\* content right before the closing tag, after all earlier content.
C6_SingleWrapperAfterWrite ==
    \A i \in WriteCalls :
        LET h == hist[i]
            c == h.after[h.file]
        IN  /\ SingleWrapper(c)
            /\ h.op = "append" =>
                 Inner(c) = Append(Inner(ContentBefore(h, h.file)), h.xml)

---------------------------------------------------------------------------
(* Claims about the schema cache and the lint run *)

InFlight(c, k) == thread[c].pc = "get" /\ thread[c].key = k

\* C7: among calls of download_rng_schema that run at the same time, at most
\* one request is out for a key that is not cached, and a call for another key
\* is not held back by it.
C7_SingleFlightPerKey ==
    /\ \A c1, c2 \in Callers : \A k \in CallKeys :
          InFlight(c1, k) /\ InFlight(c2, k) => c1 = c2
    /\ \A c1, c2 \in Callers : \A k1, k2 \in CallKeys :
          (/\ InFlight(c1, k1)
           /\ thread[c2].pc = "idle"
           /\ k2 # k1
           /\ started < MaxCalls) => ENABLED FetchCall(c2, k2)

\* C8: once a key is in the cache, every later call for it returns the stored
\* text without a request, and the stored text stays as it is for the rest of
\* the run.
C8_CachedKeyIsStable ==
    \A i \in 1..Len(fetchLog) :
        LET e == fetchLog[i]
        IN  /\ e.key \in DOMAIN e.before =>
                 e.ret = e.before[e.key] /\ ~e.requested
            /\ \A k \in DOMAIN e.before :
                 k \in DOMAIN e.after /\ e.after[k] = e.before[k]
            /\ IF i < Len(fetchLog)
               THEN fetchLog[i + 1].before = e.after
               ELSE schemaCache = e.after

\* A key is fetched and stored, and a later call for it is answered from the cache.
C8_Witness ==
    \E i, j \in 1..Len(fetchLog) :
        /\ i < j
        /\ fetchLog[i].requested
        /\ fetchLog[i].ret \in NetTexts
        /\ fetchLog[j].key = fetchLog[i].key
        /\ ~fetchLog[j].requested
        /\ fetchLog[j].ret = fetchLog[i].ret

\* C9: download_rng_schema never raises; for a key outside the known set it
\* returns None without a request, for a known key whose request fails it
\* returns None, and in both cases it leaves the cache as it was.
C9_FailureReturnsNone ==
    \A i \in 1..Len(fetchLog) :
        LET e == fetchLog[i]
        IN  /\ ~e.raised
            /\ e.key \notin RNG_SCHEMA_KEYS =>
                 e.ret = None /\ ~e.requested /\ e.after = e.before
            /\ (e.requested /\ e.net \in NetFailures) =>
                 e.ret = None /\ e.after = e.before

\* Both cases have happened, with a text in the cache: a call for an unknown key
\* and a call whose request failed with each kind of failure.
C9_Witness ==
    /\ \E i \in 1..Len(fetchLog) :
          fetchLog[i].key \notin RNG_SCHEMA_KEYS /\ DOMAIN fetchLog[i].before # {}
    /\ \E i \in 1..Len(fetchLog) :
          fetchLog[i].requested /\ fetchLog[i].net = "error_status"
          /\ DOMAIN fetchLog[i].before # {}

Count(f, findings) == Cardinality({k \in 1..Len(findings) : findings[k] = f})

\* The file at position i of the run had a schema fetch that failed.
FetchFailedFor(i) ==
    \E k \in 1..Len(results[i].fetches) : results[i].fetches[k].ret = None

\* What lint_xml_file returns for the file when --skip-rng is set.
FindingsWithSkipFlag(file) ==
    LintXmlFile(EmptyCache, file, TRUE, TRUE, None, None).errors

\* C10: when the fetch of the common or of the type's schema fails while a file
\* is linted, the lint of the file completes, its findings hold exactly one
\* skip finding, and they hold every finding the file gets under --skip-rng.
C10_FetchFailureSkipsValidationOnly ==
    \A i \in 1..Len(results) :
        FetchFailedFor(i) =>
            LET errors == results[i].errors
                base == FindingsWithSkipFlag(Disk[lintFiles[i]])
            IN  /\ Cardinality({k \in 1..Len(errors) : errors[k].rule = "rng_skipped"}) = 1
                /\ \A k \in 1..Len(base) : Count(base[k], errors) >= Count(base[k], base)
                /\ Len(errors) = Len(base) + 1

\* A fetch failed for a file that has convention findings, and the run went on
\* to the next file.
C10_Witness ==
    \E i \in 1..Len(results) :
        /\ FetchFailedFor(i)
        /\ FindingsWithSkipFlag(Disk[lintFiles[i]]) # <<>>
        /\ i < Len(results)

---------------------------------------------------------------------------
(* Claims about the classifier *)

ViewRecordSet(doc) ==
    {r \in 1..Len(doc) : doc[r].tag = "record" /\ doc[r].model = "ir.ui.view"}

\* The known view tags found below the arch field of record r.
TagsInArch(doc, r) ==
    LET arch == {j \in Descendants(doc, r) : doc[j].tag = "field" /\ doc[j].name = "arch"}
    IN  IF arch = {} THEN {}
        ELSE {doc[j].tag : j \in Descendants(doc, SetMin(arch))} \cap ViewTypeSet

Rank(tag) == CHOOSE t \in 1..Len(VIEW_TYPES) : VIEW_TYPES[t] = tag

\* The tag of the set that comes first in the priority order, tree read as list.
FirstByPriority(tags) ==
    LET t == CHOOSE x \in tags : \A y \in tags : Rank(x) <= Rank(y)
    IN  IF t = "tree" THEN "list" ELSE t

RecordsWithTag(doc) == {r \in ViewRecordSet(doc) : TagsInArch(doc, r) # {}}

\* C11: when the arch of some view record holds a known view tag, the
\* classifier returns the first tag in priority order among the tags found in
\* the archs of all view records, whatever the order of the records, with tree
\* returned as list.
C11_PriorityAcrossRecords ==
    (ruleType # Unset /\ RecordsWithTag(ruleDoc) # {}) =>
        /\ ruleType = FirstByPriority(UNION {TagsInArch(ruleDoc, r) :
                                               r \in ViewRecordSet(ruleDoc)})
        /\ ruleType # "tree"

\* C11 as the code has it: the first view record in document order whose arch
\* holds a known view tag decides, by the first tag in priority order among
\* the tags of its arch, with tree returned as list.
C11_PriorityInFirstRecord ==
    (ruleType # Unset /\ RecordsWithTag(ruleDoc) # {}) =>
        /\ ruleType = FirstByPriority(TagsInArch(ruleDoc, SetMin(RecordsWithTag(ruleDoc))))
        /\ ruleType # "tree"

\* A document of two records is classified by its first record, a form, while
\* the second holds a list; and a document whose only tag is tree is a list.
C11_Witness ==
    /\ ruleType = "form"
    /\ Cardinality(RecordsWithTag(ruleDoc)) = 2
    /\ \E r \in RecordsWithTag(ruleDoc) : TagsInArch(ruleDoc, r) = {"tree"}

\* The known view tags of the whole document, root included.
TagsInDocument(doc) == {doc[j].tag : j \in 1..Len(doc)} \cap ViewTypeSet

\* C12: when no view record's arch holds a known view tag, the classifier
\* searches the whole document, root included, in the same priority order, and
\* returns none exactly when no element carries a known view tag.
C12_WholeDocumentRootIncluded ==
    (ruleType # Unset /\ RecordsWithTag(ruleDoc) = {}) =>
        IF TagsInDocument(ruleDoc) = {}
        THEN ruleType = None
        ELSE ruleType = FirstByPriority(TagsInDocument(ruleDoc))

---------------------------------------------------------------------------
(* Claims about the convention rules *)

\* The findings of the rule at the line, in a list of findings.
FindingsAt(errors, rule, line) ==
    {k \in 1..Len(errors) : errors[k].rule = rule /\ errors[k].line = line}

\* C13: the lint of a well-formed file gives exactly one missing-id finding for
\* each view record without an id attribute and none for a record with one,
\* whether or not the document is classified to a view type.
C13_OneMissingIdPerRecord ==
    ruleLint.done =>
        \A r \in ViewRecordSet(ruleDoc) :
            Cardinality(FindingsAt(ruleLint.errors, "missing_id", r))
                = (IF ruleDoc[r].id = Absent THEN 1 ELSE 0)

\* The field elements called field_name that are children of record r.
ChildFields(doc, r, field_name) ==
    {j \in Descendants(doc, r) :
        /\ doc[j].depth = doc[r].depth + 1
        /\ doc[j].tag = "field"
        /\ doc[j].name = field_name}

\* C14: for each view record and each of name, model and arch, the rules give
\* exactly one missing-field finding when the record has no child field of
\* that name and none when it has one; a field of that name deeper in the
\* record does not count.
C14_MissingFieldByChild ==
    \A n \in 1..Len(ruleRuns) :
        \A r \in ViewRecordSet(ruleDoc) : \A field_name \in {"name", "model", "arch"} :
            Cardinality({k \in FindingsAt(ruleRuns[n].errors, "missing_field", r) :
                            ruleRuns[n].errors[k].detail[2] = field_name})
                = (IF ChildFields(ruleDoc, r, field_name) = {} THEN 1 ELSE 0)

TreeElements(doc) == {i \in 1..Len(doc) : doc[i].tag = "tree"}

\* The deprecated-tag findings of a list of findings are one for each tree
\* element when the type is list, and none otherwise.
DeprecatedTagFindingsFit(errors, doc, view_type) ==
    /\ \A i \in 1..Len(doc) :
          Cardinality(FindingsAt(errors, "deprecated_tree", i))
              = (IF view_type = "list" /\ i \in TreeElements(doc) THEN 1 ELSE 0)
    /\ Cardinality({k \in 1..Len(errors) : errors[k].rule = "deprecated_tree"})
          = (IF view_type = "list" THEN Cardinality(TreeElements(doc)) ELSE 0)

\* C15: when the document is classified as a list view, each tree element gives
\* exactly one deprecated-tag finding, however many other elements there are;
\* when the type is not list there is no deprecated-tag finding.
C15_OneFindingPerTree ==
    /\ \A n \in 1..Len(ruleRuns) :
          DeprecatedTagFindingsFit(ruleRuns[n].errors, ruleDoc, ruleRuns[n].view_type)
    /\ (ruleLint.done /\ ruleType # Unset) =>
          DeprecatedTagFindingsFit(ruleLint.errors, ruleDoc, ruleType)

\* A document with two tree elements among other elements has been run through
\* the rules as a list and as another type, and linted after classification.
C15_Witness ==
    /\ Cardinality(TreeElements(ruleDoc)) = 2
    /\ \E n \in 1..Len(ruleRuns) : ruleRuns[n].view_type = "list"
    /\ \E n \in 1..Len(ruleRuns) : ruleRuns[n].view_type # "list"
    /\ ruleLint.done
    /\ ruleType = "list"

---------------------------------------------------------------------------
(* Claims about the lint run *)

\* C17: for a malformed file lint_xml_file returns exactly one finding, the
\* parse error, and does nothing else on the file: no other finding, no schema
\* fetch, the schema cache as it was; so the files linted after it are linted
\* from the state they would be linted from without it.
C17_MalformedFileOneFinding ==
    \A i \in 1..Len(results) :
        Disk[lintFiles[i]].kind = "malformed" =>
            /\ Len(results[i].errors) = 1
            /\ results[i].errors[1].rule = "syntax_error"
            /\ results[i].fetches = <<>>
            /\ results[i].after = results[i].before
            /\ IF i < Len(results)
               THEN results[i + 1].before = results[i].before
               ELSE schemaCache = results[i].before

\* A malformed file has been linted after a file that filled the schema cache,
\* and a malformed file has been followed by a file with findings.
C17_Witness ==
    \E i \in 1..Len(results) :
        /\ Disk[lintFiles[i]].kind = "malformed"
        /\ \/ results[i].before # EmptyCache
           \/ i < Len(results) /\ results[i + 1].fetches # <<>>
                               /\ Len(results[i + 1].errors) >= 2

\* C18: a failure of one file (malformed XML, a file that cannot be read, an
\* exception in the schema validation) or of one schema fetch never ends the
\* run early: when the run has ended, every file has been linted and reported
\* and the run has ended with its summary.
C18_RunNeverAborts ==
    (summary.done /\ ~summary.no_root) =>
        /\ ~summary.aborted
        /\ Len(results) = Len(lintFiles)

FilesWithFindings == {i \in 1..Len(results) : results[i].errors # <<>>}

RECURSIVE SumFindings(_)
SumFindings(n) == IF n = 0 THEN 0 ELSE Len(results[n].errors) + SumFindings(n - 1)

\* The summary of a run that got to it: the totals are those of the files.
TotalsFit ==
    (summary.done /\ ~summary.aborted /\ ~summary.no_root) =>
        /\ summary.total_errors = SumFindings(Len(results))
        /\ summary.files_with_errors = Cardinality(FilesWithFindings)

\* C19: the lint command exits non-zero exactly when some linted file gave a
\* finding or an error; the reported total is the sum of the findings of the
\* files and the reported count the number of files with findings.
C19_ExitIffFindings ==
    /\ summary.done =>
          (summary.exit # 0 <=> (FilesWithFindings # {} \/ summary.aborted))
    /\ TotalsFit

\* C19 as the code has it: the exit is also non-zero when no path is given and
\* no project root is found, before any file is linted.
C19_ExitIffFindingsOrNoRoot ==
    /\ summary.done =>
          (summary.exit # 0 <=>
              (FilesWithFindings # {} \/ summary.aborted \/ summary.no_root))
    /\ TotalsFit

\* A run of two files has ended, one file with several findings and one with none.
C19_Witness ==
    /\ summary.done
    /\ Len(results) = 2
    /\ summary.files_with_errors = 1
    /\ summary.total_errors >= 2
    /\ summary.exit = 1

---------------------------------------------------------------------------
(* Claims about the extension request *)

\* The request of the call is one that validation has to turn down.
InvalidRequest(h) ==
    \/ h.frag.expr = ""
    \/ h.frag.field = ""
    \/ h.frag.position \notin PositionChoices

\* C20: an extension request with an empty XPath, an empty field name or a
\* position outside after, before, inside, replace is turned down before any
\* file is touched: no file is modified and none is created.
C20_InvalidRequestTouchesNoFile ==
    \A i \in ExtendCalls :
        InvalidRequest(hist[i]) =>
            /\ hist[i].after = hist[i].before
            /\ hist[i].result \notin {"updated", "created"}

---------------------------------------------------------------------------
(* Claims about the search of extend *)

\* The candidate files of the call that cannot be read or cannot be parsed.
BadFiles(h) ==
    {n \in DOMAIN h.before : ~Readable(h.before[n]) \/ ~Parses(h.before[n])}

\* C21: a candidate file that cannot be parsed or cannot be read is skipped and
\* the search goes on: the call does not fail, a candidate that matches is
\* still updated, and when none matches (the bad file being the only candidate
\* included) the create-new path is taken.
C21_BadCandidateIsSkipped ==
    \A i \in ExtendCalls :
        LET h == hist[i]
        IN  BadFiles(h) # {} =>
              /\ h.result \in {"updated", "created"}
              /\ MatchingFiles(h) # {} =>
                    h.result = "updated" /\ h.file \in MatchingFiles(h)
              /\ MatchingFiles(h) = {} => h.result = "created"

\* What the search of the call would have done had the directory listing
\* yielded the same files in the order o.
OtherRun(h, o) == FindAndUpdate(h.before, o, h.view_id, h.frag)

\* C22: for the same candidate files, contents and request, two runs of extend
\* that update a file update the same file, whatever the order in which the
\* directory listing yields the files.
C22_UpdatedFileIgnoresListingOrder ==
    \A i \in ExtendCalls :
        LET h == hist[i]
        IN  h.result = "updated" =>
              \A o \in GlobOrders(h.before) :
                  OtherRun(h, o).updated => OtherRun(h, o).file = h.file

---------------------------------------------------------------------------
(* Claims about schema validation *)

\* The elements of the type below the root: the subtrees there are to extract.
TypeSubtrees(doc, view_type) == XPathBelow(doc, 1, view_type)

\* Both schemas were obtained and are schemas.
SchemasAtHand(run) == run.common = "rng" /\ run.view = "rng"

\* C23: with the schemas at hand, the findings of validate_view_with_rng are
\* the violations of each subtree of the type: every invalid subtree has a
\* finding, also after an earlier invalid one, a valid one has none, and
\* nothing else is reported; without a subtree of the type the result is empty.
C23_EverySubtreeValidated ==
    \A n \in 1..Len(rngRuns) :
        LET run      == rngRuns[n]
            subtrees == TypeSubtrees(run.root, run.view_type)
        IN  /\ SchemasAtHand(run) =>
                  /\ \A i \in subtrees :
                        (FindingsAt(run.errors, "rng_error", i) # {}) <=> ~run.root[i].valid
                  /\ \A k \in 1..Len(run.errors) :
                        /\ run.errors[k].rule = "rng_error"
                        /\ run.errors[k].line \in subtrees
            /\ (~NotSchema(run.common) /\ ~NotSchema(run.view) /\ subtrees = {}) =>
                  run.errors = <<>>

\* A run that found two invalid subtrees, one after the other.
C23_Witness ==
    \E n \in 1..Len(rngRuns) :
        /\ SchemasAtHand(rngRuns[n])
        /\ \E i, j \in TypeSubtrees(rngRuns[n].root, rngRuns[n].view_type) :
              /\ i < j
              /\ FindingsAt(rngRuns[n].errors, "rng_error", i) # {}
              /\ FindingsAt(rngRuns[n].errors, "rng_error", j) # {}

\* The calls i..j are extend calls with one target and one fragment that all
\* took the update path on one file.
SameUpdateRun(i, j) ==
    \A k \in i..j :
        /\ k \in ExtendCalls
        /\ hist[k].result = "updated"
        /\ hist[k].view_id = hist[i].view_id
        /\ hist[k].frag = hist[i].frag
        /\ hist[k].file = hist[i].file

Copies(frag, n) == [k \in 1..n |-> frag]

RecordsOf(content) == {content[k] : k \in {k \in 1..Len(content) : IsElement(content[k])}}

\* The record is in the file with, among the children of its arch, all the
\* fragments it had.
StillHolds(content, rec) ==
    \E k \in 1..Len(content) :
        /\ content[k].kind = rec.kind
        /\ content[k].model = rec.model
        /\ content[k].id = rec.id
        /\ content[k].inherit = rec.inherit
        /\ \A a \in 1..Len(rec.arch) :
              \E b \in 1..Len(content[k].arch) : content[k].arch[b] = rec.arch[a]

\* C28: after an extend call, every file that existed before the call still
\* holds all the records and fragments it held before it, also when the call
\* takes the create-new path and a file with the derived name is there.
C28_ExtendKeepsExistingContent ==
    \A i \in ExtendCalls :
        LET h == hist[i]
        IN  \A n \in DOMAIN h.before :
              /\ n \in DOMAIN h.after
              /\ \A rec \in RecordsOf(h.before[n]) : StillHolds(h.after[n], rec)

\* The files of the call that parse and hold a view record that inherits from
\* the target and has an arch field.
FilesWithArchMatch(h) ==
    {n \in DOMAIN h.before :
        \E m \in Matches(h.before[n], h.view_id) : h.before[n][m].hasArch}

\* C30: if a candidate file holds a view record that inherits from the target
\* and has an arch field, extend takes the update path and not the create-new
\* path, also when an earlier record of the file inherits from the target and
\* has no arch field.
C30_ArchMatchIsUpdated ==
    \A i \in ExtendCalls :
        LET h == hist[i]
        IN  (FilesWithArchMatch(h) # {} /\ FragmentParses(h.frag)
             /\ \A n \in DOMAIN h.before : Readable(h.before[n])) =>
                /\ h.result = "updated"
                /\ Created(h) = {}

\* The rules of the findings that schema validation makes.
RngRules == {"rng_skipped", "rng_failed", "rng_error"}

\* File n of the run is one that gets no schema validation: the skip flag is
\* set, or it is classified as form or kanban, or it is not classified.
NoSchemaFile(n) ==
    LET file == Disk[lintFiles[n]]
    IN  \/ skipRng
        \/ /\ file.kind = "xml"
           /\ GetViewTypeFromXml(file.doc) \in {"form", "kanban", None}

\* C24: for a file classified as form or kanban, for an unclassified file, and
\* for any file under the skip flag, no schema is retrieved and no finding of
\* schema validation, the skip finding included, is emitted.
C24_NoSchemaWorkOutsideKnownSet ==
    \A n \in 1..Len(results) :
        NoSchemaFile(n) =>
            /\ results[n].fetches = <<>>
            /\ results[n].after = results[n].before
            /\ \A k \in 1..Len(results[n].errors) :
                  results[n].errors[k].rule \notin RngRules

\* A kanban file linted without the skip flag, and a list file linted under it,
\* both with convention findings.
C24_Witness ==
    \/ /\ ~skipRng /\ command = "views"
       /\ \E n \in 1..Len(results) :
             /\ lintFiles[n] = "kanban.xml"
             /\ results[n].errors # <<>>
    \/ /\ skipRng
       /\ \E n \in 1..Len(results) :
             /\ lintFiles[n] = "list.xml"
             /\ results[n].errors # <<>>

\* The positions of the list that ExtractViewElementsForRng yields at which
\* element i stands.
ExtractedAt(doc, view_type, i) ==
    LET view_elements == ExtractViewElementsForRng(doc, view_type)
    IN  {k \in 1..Len(view_elements) : view_elements[k] = i}

\* C29: the subtrees extracted for schema validation hold each element of the
\* type exactly once, an element inside a record's arch included, so that a
\* violation is reported once per offending subtree.
C29_EachSubtreeExtractedOnce ==
    \A n \in 1..Len(rngRuns) :
        LET run == rngRuns[n]
        IN  \A i \in TypeSubtrees(run.root, run.view_type) :
              /\ Cardinality(ExtractedAt(run.root, run.view_type, i)) = 1
              /\ (SchemasAtHand(run) /\ ~run.root[i].valid) =>
                    Cardinality(FindingsAt(run.errors, "rng_error", i)) = 1

---------------------------------------------------------------------------
(* Claims about the deprecated attributes *)

\* C25: every element that carries a states attribute yields exactly one
\* deprecated-states finding, which names its tag and the attribute's value,
\* whatever the value (the empty text included), the tag and the view type.
C25_StatesAlwaysFlagged ==
    \A n \in 1..Len(ruleRuns) :
        LET run == ruleRuns[n]
        IN  \A i \in 1..Len(run.root) :
              run.root[i].states # Absent =>
                /\ Cardinality(FindingsAt(run.errors, "deprecated_states", i)) = 1
                /\ \A k \in FindingsAt(run.errors, "deprecated_states", i) :
                      run.errors[k].detail = <<run.root[i].tag, run.root[i].states>>

\* C26: for every attrs value get_attrs_replacement_suggestion returns a
\* suggestion, and the suggestion carries the note on 'or' whenever the value
\* holds '|' and the note on 'and' whenever it holds '&', the generic
\* suggestion included.
C26_NotesForOperators ==
    \A n \in 1..Len(suggested) :
        LET call  == suggested[n]
            parts == {call.ret[k] : k \in 1..Len(call.ret)}
        IN  /\ call.ret # <<>>
            /\ Contains(call.attrs_value, <<"|">>) => OrNote \in parts
            /\ Contains(call.attrs_value, <<"&">>) => AndNote \in parts

---------------------------------------------------------------------------
(* Specifications *)

FsIdle ==
    /\ viewsDir = FALSE
    /\ files = MakeFiles(<<"none">>, <<"none">>, <<"none">>)
    /\ hist = <<>>

\* The views directory under the extend, action and menu commands.
Init == FsInit /\ FetchInit /\ LintIdle /\ RulesIdle

Next ==
    \/ Extend
    \/ ExtendNoModule
    \/ AddXml
    \/ AddXmlNoModule

Spec == Init /\ [][Next]_vars

\* The extend command called again and again on a directory with a match.
InitRepeat == RepeatInit /\ FetchInit /\ LintIdle /\ RulesIdle

NextRepeat ==
    \/ Extend
    \/ ExtendNoModule

SpecRepeat == InitRepeat /\ [][NextRepeat]_vars

\* download_rng_schema under callers that run at the same time.
InitFetch == FsIdle /\ FetchInit /\ LintIdle /\ RulesIdle

NextFetch ==
    \/ \E c \in Callers, schema_type \in CallKeys : FetchCall(c, schema_type)
    \/ \E c \in Callers, net \in NetOutcomes : FetchRespond(c, net)

SpecFetch == InitFetch /\ [][NextFetch]_vars

\* A lint run: one thread, one file after the other.
InitLint == FsIdle /\ FetchInit /\ LintInit /\ RulesIdle

NextLint ==
    \/ LintFile
    \/ LintFinish
    \/ LintNoProjectRoot

SpecLint == InitLint /\ [][NextLint]_vars

\* The classifier, the convention rules and the lint of one document.
NoLintRun ==
    /\ lintFiles = <<>>
    /\ skipRng = FALSE
    /\ command = "views"
    /\ lintIdx = 1
    /\ results = <<>>
    /\ summary = [NoSummary EXCEPT !.done = TRUE]

InitRules == FsIdle /\ FetchInit /\ NoLintRun /\ RulesInit

NextRules ==
    \/ Classify
    \/ Validate
    \/ LintDoc

SpecRules == InitRules /\ [][NextRules]_vars

\* validate_view_with_rng on one document, called again and again.
InitRng == FsIdle /\ FetchInit /\ NoLintRun /\ RngInit

NextRng == ValidateRng

SpecRng == InitRng /\ [][NextRng]_vars

\* get_attrs_replacement_suggestion, called again and again.
InitSuggest == FsIdle /\ FetchInit /\ NoLintRun /\ RulesIdle

NextSuggest == Suggest

SpecSuggest == InitSuggest /\ [][NextSuggest]_vars

====
